---------------------------- MODULE Spec2Model ----------------------------
(***************************************************************************)
(* Station monitoring and synchronisation engine of                        *)
(* radio_monitor_supabase.py: the connectivity-aware loop of               *)
(* RadioMonitor.iniciar, the per-station pass of _atualizar_todas, the     *)
(* song text parser parse_song_text, the capped local history and the      *)
(* pushes of _enviar_para_supabase.                                        *)
(*                                                                         *)
(* Text is modelled as a sequence of one-character strings, so that the    *)
(* parser and the key normalisation are computed character by character.   *)
(***************************************************************************)
EXTENDS Integers, Sequences, FiniteSets, TLC

(***************************************************************************)
(* Characters and text helpers (Python str / re semantics).                *)
(***************************************************************************)
NL == "\n"

\* the absent value (Python None), also used for a missing dict key
None == "None"

Whitespace == {" ", NL, "\t", "\r"}

Digits == {"0", "1", "2", "3", "4", "5", "6", "7", "8", "9"}

\* str.lower() on one character (the upper-case letters the inputs use)
LowerChar(c) ==
    CASE c = "A" -> "a" [] c = "B" -> "b" [] c = "C" -> "c" [] c = "D" -> "d"
      [] c = "E" -> "e" [] c = "F" -> "f" [] c = "G" -> "g" [] c = "H" -> "h"
      [] c = "I" -> "i" [] c = "J" -> "j" [] c = "K" -> "k" [] c = "L" -> "l"
      [] c = "M" -> "m" [] c = "N" -> "n" [] c = "O" -> "o" [] c = "P" -> "p"
      [] c = "Q" -> "q" [] c = "R" -> "r" [] c = "S" -> "s" [] c = "T" -> "t"
      [] c = "U" -> "u" [] c = "V" -> "v" [] c = "W" -> "w" [] c = "X" -> "x"
      [] c = "Y" -> "y" [] c = "Z" -> "z" [] OTHER -> c

\* str.lower()
Lower(s) == [i \in 1..Len(s) |-> LowerChar(s[i])]

\* s[a..b] as a sequence (empty when a > b)
Slice(s, a, b) == IF a > b THEN <<>> ELSE SubSeq(s, a, b)

\* number of leading whitespace characters of s
RECURSIVE LeadWs(_)
LeadWs(s) ==
    IF s = <<>> \/ Head(s) \notin Whitespace THEN 0 ELSE 1 + LeadWs(Tail(s))

\* length of s without its trailing whitespace
RECURSIVE RTrimLen(_)
RTrimLen(s) ==
    IF s = <<>> \/ s[Len(s)] \notin Whitespace THEN Len(s)
    ELSE RTrimLen(SubSeq(s, 1, Len(s) - 1))

\* str.strip()
Strip(s) == Slice(s, LeadWs(s) + 1, RTrimLen(s))

\* s ends with suf, compared case-insensitively (re.IGNORECASE)
EndsWithCI(s, suf) ==
    /\ Len(s) >= Len(suf)
    /\ Lower(SubSeq(s, Len(s) - Len(suf) + 1, Len(s))) = Lower(suf)

\* length of s[1..n] after dropping the whitespace that ends it
RECURSIVE SkipWsBack(_, _)
SkipWsBack(s, n) ==
    IF n = 0 \/ s[n] \notin Whitespace THEN n ELSE SkipWsBack(s, n - 1)

\* length of s[1..n] after dropping the digits that end it
RECURSIVE SkipDigitsBack(_, _)
SkipDigitsBack(s, n) ==
    IF n = 0 \/ s[n] \notin Digits THEN n ELSE SkipDigitsBack(s, n - 1)

\* length of s[1..n] after dropping one optional newline that ends it (\n?)
SkipNlBack(s, n) == IF n > 0 /\ s[n] = NL THEN n - 1 ELSE n

\* first index >= i at which sub occurs in s, 0 when it does not (str.find)
RECURSIVE FindFrom(_, _, _)
FindFrom(s, sub, i) ==
    IF i + Len(sub) - 1 > Len(s) THEN 0
    ELSE IF SubSeq(s, i, i + Len(sub) - 1) = sub THEN i
    ELSE FindFrom(s, sub, i + 1)

\* sub in s
Contains(s, sub) == FindFrom(s, sub, 1) > 0

\* s.split('\n')
RECURSIVE SplitNl(_)
SplitNl(s) ==
    LET k == FindFrom(s, <<NL>>, 1)
    IN  IF k = 0 THEN <<s>>
        ELSE <<Slice(s, 1, k - 1)>> \o SplitNl(Slice(s, k + 1, Len(s)))

\* [l.strip() for l in parts if l.strip()]
RECURSIVE StripNonEmpty(_)
StripNonEmpty(parts) ==
    IF parts = <<>> THEN <<>>
    ELSE IF Strip(Head(parts)) = <<>> THEN StripNonEmpty(Tail(parts))
    ELSE <<Strip(Head(parts))>> \o StripNonEmpty(Tail(parts))

\* re.match(r'^\d{2}:\d{2}$', s): $ also matches before one final newline
IsHHMM(s) ==
    /\ Len(s) \in {5, 6}
    /\ Len(s) = 6 => s[6] = NL
    /\ s[1] \in Digits /\ s[2] \in Digits /\ s[3] = ":"
    /\ s[4] \in Digits /\ s[5] \in Digits

(***************************************************************************)
(* parse_song_text                                                         *)
(***************************************************************************)
\* the sentinel artist of the fallback rule
Desconhecido == <<"D", "e", "s", "c", "o", "n", "h", "e", "c", "i", "d", "o">>

\* an absent or empty text: the code only tests such values for truthiness
NoText == <<>>

\* re.sub(r'\n?LIVE\s*$', '', s, flags=re.IGNORECASE).strip(), e the length of
\* s without the whitespace that ends it
SubLiveAt(s, e) ==
    IF EndsWithCI(Slice(s, 1, e), <<"L", "I", "V", "E">>)
    THEN Strip(Slice(s, 1, SkipNlBack(s, e - 4)))
    ELSE Strip(s)

SubLive(s) == SubLiveAt(s, RTrimLen(s))

\* where the text before "\s*ago\s*$" ends, 0 when s does not end that way
AgoPos(s, e) ==
    IF EndsWithCI(Slice(s, 1, e), <<"a", "g", "o">>) THEN SkipWsBack(s, e - 3) ELSE 0

\* where the text before the unit (min|sec|h) ends, 0 when there is no unit
UnitPos(s, a) ==
    IF EndsWithCI(Slice(s, 1, a), <<"m", "i", "n">>) THEN a - 3
    ELSE IF EndsWithCI(Slice(s, 1, a), <<"s", "e", "c">>) THEN a - 3
    ELSE IF EndsWithCI(Slice(s, 1, a), <<"h">>) THEN a - 1
    ELSE 0

\* the cut before \n?\d+ when the digits s[d+1..d0] are there
CutDigits(s, d0, d) ==
    IF d < d0 THEN Strip(Slice(s, 1, SkipNlBack(s, d))) ELSE Strip(s)

SubAgoDigits(s, d0) == CutDigits(s, d0, SkipDigitsBack(s, d0))

\* re.sub(r'\n?\d+\s*(min|sec|h)\s*ago\s*$', '', s, flags=re.IGNORECASE).strip()
SubAgo(s) == SubAgoDigits(s, SkipWsBack(s, UnitPos(s, AgoPos(s, RTrimLen(s)))))

\* where the text before "m" ends, for \d+m\s*ago
MinPos(s, a) == IF a > 0 /\ LowerChar(s[a]) = "m" THEN a - 1 ELSE 0

\* where the text before "\d+h" ends, given the digits s[d1+1..m] of the minutes
HourPos(s, m, d1) ==
    IF d1 > 0 /\ d1 < m /\ LowerChar(s[d1]) = "h" THEN d1 - 1 ELSE 0

SubHmHour(s, m) == SubAgoDigits(s, HourPos(s, m, SkipDigitsBack(s, m)))

\* re.sub(r'\n?\d+h\d+m\s*ago\s*$', '', s, flags=re.IGNORECASE).strip()
SubHmAgo(s) == SubHmHour(s, MinPos(s, AgoPos(s, RTrimLen(s))))

\* the loop over time_patterns, in the order of the list
CleanTime(text) == SubHmAgo(SubAgo(SubLive(text)))

\* the en dash and the em dash, each one character of the text
EnDash == "endash"

EmDash == "emdash"

\* the four separators, in the order the code tries them
Separators ==
    << <<" ", "-", " ">>, <<" ", EnDash, " ">>, <<" ", EmDash, " ">>, <<" ", "|", " ">> >>

RECURSIVE SplitBySeparator(_, _, _)
\* the two stripped parts of cleaned.split(sep, 1): taken when both are longer than 1
TryParts(cleaned, i, fallback, left, right) ==
    IF Len(left) > 1 /\ Len(right) > 1
    THEN [title |-> right, artist |-> left]
    ELSE SplitBySeparator(cleaned, i + 1, fallback)

\* separator number i, found at index k of cleaned (0: not in cleaned)
TrySeparator(cleaned, i, fallback, k) ==
    IF k = 0 THEN SplitBySeparator(cleaned, i + 1, fallback)
    ELSE TryParts(cleaned, i, fallback, Strip(Slice(cleaned, 1, k - 1)),
                  Strip(Slice(cleaned, k + Len(Separators[i]), Len(cleaned))))

\* the "Artista - Titulo" loop, from separator number i on
SplitBySeparator(cleaned, i, fallback) ==
    IF i > Len(Separators) THEN fallback
    ELSE TrySeparator(cleaned, i, fallback, FindFrom(cleaned, Separators[i], 1))

\* the last two returns: the first line, or the stripped text, as the title
Fallback(text, lines) ==
    IF lines # <<>> THEN [title |-> lines[1], artist |-> Desconhecido]
    ELSE [title |-> text, artist |-> Desconhecido]

\* the rules on the cleaned lines
ParseLines(text, cleaned, lines) ==
    IF /\ Len(lines) >= 2
       /\ Len(lines[2]) > 1
       /\ ~IsHHMM(lines[2])
    THEN [title |-> lines[1], artist |-> lines[2]]
    ELSE SplitBySeparator(cleaned, 1, Fallback(text, lines))

ParseCleaned(text, cleaned) == ParseLines(text, cleaned, StripNonEmpty(SplitNl(cleaned)))

ParseText(text) == ParseCleaned(text, CleanTime(text))

parse_song_text(raw) ==
    IF raw = NoText THEN [title |-> <<>>, artist |-> <<>>] ELSE ParseText(Strip(raw))

(***************************************************************************)
(* Bounds and program constants                                            *)
(***************************************************************************)
\* hist[-1000:], the cap of a station's history, scaled down
HistCap == 2

\* "intervalo_minutos" of the configuration (5 by default)
IntervaloMinutos == 1

\* self.intervalo = intervalo_minutos * 60
SegundosPorMinuto == 60

\* seg % 30 == 0: the countdown probes connectivity every 30 ticks
PeriodoProbe == 30

\* for song_text in (...)[:5]
MaxUltimas == 5

\* import of playwright.async_api succeeded
PLAYWRIGHT_OK == TRUE

(***************************************************************************)
(* Inputs: station rows, configuration files, page contents                *)
(***************************************************************************)
NomeA == <<"R", " ", "A">>

NomeB == <<"J", "z">>

UrlMy == <<"m", "y">>

UrlClube == <<"C", "l", "u", "b", "e", "F", "M">>

\* rows of the remote table radio_stations with enabled = true
RowA == [name |-> NomeA, scrape_url |-> UrlMy]

RowB == [name |-> NomeB, scrape_url |-> UrlClube]

\* what supabase_select can return for radio_stations while the remote is up:
\* no row, both stations, or the second station alone after the first was disabled
RegistrosRemotos == {<<>>, <<RowB>>, <<RowA, RowB>>}

\* the "radios" list of radios_config.json; tipo is None when the entry has no such key
ConfigsLocais ==
    { <<>>,
      << [nome |-> NomeA, url |-> UrlMy, ativo |-> TRUE, tipo |-> "mytuner"],
         [nome |-> NomeB, url |-> UrlClube, ativo |-> FALSE, tipo |-> "clubefm"] >>,
      << [nome |-> NomeA, url |-> UrlMy, ativo |-> TRUE, tipo |-> None] >> }

\* raw "now playing" texts a MyTuner page can show
TxtLinhas == <<"A", "b", NL, "C", "d">>

\* the same song as TxtLinhas, with the time suffix of the page
TxtLive == <<"A", "b", NL, "C", "d", NL, "L", "I", "V", "E">>

TxtHora == <<"1", "2", ":", "4", "5">>

AgoraMyTuner == {NoText, TxtLinhas, TxtLive, TxtHora}

\* raw "recently played" items of a MyTuner page (each longer than 5 characters)
ItemBom == <<"E", "f", " ", "-", " ", "G", "h", "i">>

ItemSemArtista == <<"N", "o", "i", "s", "e", "1">>

ItemHora == <<"0", "9", ":", "3", "0", NL, "K", "l">>

ItemQuatro == <<"M", "n", " ", "-", " ", "O", "p", "q">>

ItemCinco == <<"Q", "r", " ", "-", " ", "S", "t", "u">>

ItemSeis == <<"U", "v", " ", "-", " ", "W", "x", "y">>

\* the lists of a MyTuner page: none, or more items than the sync sends
UltimasMyTuner ==
    {<<>>, <<ItemBom, ItemSemArtista, ItemHora, ItemQuatro, ItemCinco, ItemSeis>>}

\* the list a ClubeFM page yields: "musica - artista" items or lines with a time
ItemClube == <<"G", "h", " ", "-", " ", "E", "f", "g">>

ItensClube == {<<>>, <<ItemClube>>, <<TxtHora, ItemClube>>}

(***************************************************************************)
(* Station registry                                                        *)
(***************************************************************************)
\* 'clubefm' in url.lower()
TipoDeUrl(url) ==
    IF Contains(Lower(url), <<"c", "l", "u", "b", "e", "f", "m">>)
    THEN "clubefm" ELSE "mytuner"

\* the radios list built from the rows of the remote table
RadiosDoSupabase(rows) ==
    [i \in 1..Len(rows) |->
        [nome |-> rows[i].name, url |-> rows[i].scrape_url,
         tipo |-> TipoDeUrl(rows[i].scrape_url)]]

\* [r for r in config.get('radios', []) if r.get('ativo', True)]
RadiosLocais(cfg) ==
    LET Ativo(r) == r.ativo
        act == SelectSeq(cfg, Ativo)
    IN  [i \in 1..Len(act) |->
            [nome |-> act[i].nome, url |-> act[i].url, tipo |-> act[i].tipo]]

\* supabase_select('radio_stations', ...): the rows while the remote answers
\* 200, [] on any other status or exception
supabase_select(up) == IF up THEN RegistrosRemotos ELSE {<<>>}

\* the lists _carregar_radios_supabase can return, given SUPABASE_OK, whether
\* the remote answers and the list of the local configuration
_carregar_radios_supabase(ok, up, cfg) ==
    IF ~ok
    THEN {RadiosLocais(cfg)}
    ELSE {RadiosDoSupabase(rows) : rows \in supabase_select(up)}

(***************************************************************************)
(* Extraction                                                              *)
(***************************************************************************)
Dados(radio, agora, ultimas, erro) ==
    [nome |-> radio.nome, url |-> radio.url, tocando_agora |-> agora,
     ultimas_tocadas |-> ultimas, erro |-> erro]

\* the value of dados before any station was extracted
SemDados ==
    [nome |-> NoText, url |-> NoText, tocando_agora |-> NoText,
     ultimas_tocadas |-> <<>>, erro |-> None]

\* the results of _extrair_mytuner: the page.goto or the first evaluate raises,
\* the second evaluate raises after tocando_agora was set, or both succeed
_extrair_mytuner(radio) ==
    {Dados(radio, NoText, <<>>, "erro")}
    \cup {Dados(radio, agora, <<>>, "erro") : agora \in AgoraMyTuner}
    \cup {Dados(radio, agora, ult, None) : agora \in AgoraMyTuner, ult \in UltimasMyTuner}

\* the results of _extrair_clubefm: an exception, or the list of the page with
\* its first item as tocando_agora
_extrair_clubefm(radio) ==
    {Dados(radio, NoText, <<>>, "erro")}
    \cup {Dados(radio, IF itens = <<>> THEN NoText ELSE itens[1], itens, None) :
            itens \in ItensClube}

(***************************************************************************)
(* Sync client                                                             *)
(***************************************************************************)
\* supabase_insert(table, data): the request issued and whether it returned True
supabase_insert(table, data, up) == [tabela |-> table, data |-> data, ok |-> up]

\* the filter of the "ultimas tocadas" loop, on a parsed item
UltimaAceita(s) ==
    /\ s.title # <<>>
    /\ Len(s.title) >= 3
    /\ ~IsHHMM(s.title)
    /\ s.artist # Desconhecido

\* the inserts of the loop, for the parsed items that pass the filter
InserirUltimas(station_name, aceitas, up) ==
    [i \in 1..Len(aceitas) |->
        supabase_insert("radio_historico",
            [station_name |-> station_name, artist |-> aceitas[i].artist,
             title |-> aceitas[i].title], up)]

\* [parse_song_text(t) for t in itens]
ParseTodas(itens) == [i \in 1..Len(itens) |-> parse_song_text(itens[i])]

\* lista[:n]
Primeiros(lista, n) == IF Len(lista) <= n THEN lista ELSE SubSeq(lista, 1, n)

\* the inserts of the loop over dados['ultimas_tocadas'][:5]
EnviarUltimas(station_name, ultimas, up) ==
    InserirUltimas(station_name,
        SelectSeq(ParseTodas(Primeiros(ultimas, MaxUltimas)), UltimaAceita), up)

\* song_info['title'] or raw_text.strip(), song_info['artist'] or 'Desconhecido'
SongOr(raw_text, song_info) ==
    [title |-> IF song_info.title # <<>> THEN song_info.title ELSE Strip(raw_text),
     artist |-> IF song_info.artist # <<>> THEN song_info.artist ELSE Desconhecido]

\* the title and artist _enviar_para_supabase derives from tocando_agora
SongDe(raw_text) == SongOr(raw_text, parse_song_text(raw_text))

\* the two filters on the parsed tocando_agora ("timestamp/lixo", "dados insuficientes")
AgoraRejeitado(song) ==
    \/ IsHHMM(song.title)
    \/ Len(song.title) < 2
    \/ song.artist = Desconhecido /\ Len(song.title) < 4

\* EnviarAgora that gives up at the first insert that fails
EnviarAgoraAteFalha(dados, song, up) ==
    IF AgoraRejeitado(song) THEN <<>>
    ELSE IF ~up
    THEN << supabase_insert("scraped_songs",
               [station_name |-> dados.nome, title |-> song.title,
                artist |-> song.artist, is_now_playing |-> TRUE], up) >>
    ELSE << supabase_insert("scraped_songs",
               [station_name |-> dados.nome, title |-> song.title,
                artist |-> song.artist, is_now_playing |-> TRUE], up),
            supabase_insert("radio_historico",
               [station_name |-> dados.nome, artist |-> song.artist,
                title |-> song.title], up) >>
         \o EnviarUltimas(dados.nome, dados.ultimas_tocadas, up)

\* the inserts for a parsed tocando_agora, then those of the ultimas tocadas
EnviarAgora(dados, song, up) ==
    IF AgoraRejeitado(song) THEN <<>>
    ELSE << supabase_insert("scraped_songs",
               [station_name |-> dados.nome, title |-> song.title,
                artist |-> song.artist, is_now_playing |-> TRUE], up),
            supabase_insert("radio_historico",
               [station_name |-> dados.nome, artist |-> song.artist,
                title |-> song.title], up) >>
         \o EnviarUltimas(dados.nome, dados.ultimas_tocadas, up)

\* _enviar_para_supabase without the return on "not SUPABASE_OK"
EnviarSemFlag(dados, ok, up) ==
    IF dados.tocando_agora = NoText THEN <<>>
    ELSE EnviarAgora(dados, SongDe(dados.tocando_agora), up)

\* the sequence of inserts one call of _enviar_para_supabase issues
_enviar_para_supabase(dados, ok, up) ==
    IF ~ok THEN <<>>
    ELSE IF dados.tocando_agora = NoText THEN <<>>
    ELSE EnviarAgora(dados, SongDe(dados.tocando_agora), up)

(***************************************************************************)
(* Local history                                                           *)
(***************************************************************************)
\* radio['nome'].lower().replace(' ', '_')
RadioId(nome) == [i \in 1..Len(nome) |-> IF nome[i] = " " THEN "_" ELSE LowerChar(nome[i])]

\* datetime.now().strftime("%d/%m/%Y %H:%M:%S"): every time of day reads the same
DataHora == "dd/mm/aaaa HH:MM:SS"

\* the store of a missing or unreadable history file
HistoricoVazio == [radios |-> <<>>, ultima_atualizacao |-> None]

\* whether self.historico["radios"] finds the key
TemRadios(h) == "radios" \in DOMAIN h

\* a truncation that keeps the oldest entries, hist[:1000]
PrimeirosCap(hist) ==
    IF Len(hist) <= HistCap THEN hist ELSE SubSeq(hist, 1, HistCap)

\* hist[-1000:]
UltimosCap(hist) ==
    IF Len(hist) <= HistCap THEN hist ELSE SubSeq(hist, Len(hist) - HistCap + 1, Len(hist))

\* historico_completo of a key, [] for a key the store does not hold
Completo(h, radio_id) ==
    IF TemRadios(h) /\ radio_id \in DOMAIN h.radios THEN h.radios[radio_id].historico_completo ELSE <<>>

\* an update that overwrites the newest entry instead of appending
NovoCompletoSubstitui(hist, agora) ==
    IF agora # NoText /\ (hist = <<>> \/ hist[Len(hist)].musica # agora)
    THEN IF hist = <<>> THEN <<[musica |-> agora]>>
         ELSE [hist EXCEPT ![Len(hist)] = [musica |-> agora]]
    ELSE hist

\* the append of tocando_agora, when it differs from the last "musica"
NovoCompleto(hist, agora) ==
    IF agora # NoText /\ (hist = <<>> \/ hist[Len(hist)].musica # agora)
    THEN UltimosCap(Append(hist, [musica |-> agora]))
    ELSE hist

\* the history update of one station in _atualizar_todas
RegistrarLocal(h, radio, dados) ==
    LET radio_id == RadioId(radio.nome)
        entrada == IF radio_id \in DOMAIN h.radios THEN h.radios[radio_id]
                   ELSE [nome |-> radio.nome, url |-> radio.url, historico_completo |-> <<>>]
        nova == [entrada EXCEPT
                    !.historico_completo = NovoCompleto(@, dados.tocando_agora)]
    IN  [h EXCEPT !.radios =
            [k \in DOMAIN h.radios \cup {radio_id} |->
                IF k = radio_id THEN nova ELSE h.radios[k]]]

\* _carregar_historico: the parsed file, or the empty store
_carregar_historico(arquivo) ==
    IF arquivo.estado = "json" THEN arquivo.conteudo ELSE HistoricoVazio

\* the file _salvar_historico writes
_salvar_historico(h) == [estado |-> "json", conteudo |-> h]

\* the history files a start can find: none, or one that json.load rejects
ArquivosIniciais ==
    { [estado |-> "ausente", conteudo |-> HistoricoVazio],
      [estado |-> "ilegivel", conteudo |-> HistoricoVazio] }

\* a history file that json.load accepts and that has no "radios" key
ArquivoSemRadios ==
    [estado |-> "json", conteudo |-> [ultima_atualizacao |-> DataHora]]

(***************************************************************************)
(* State                                                                   *)
(***************************************************************************)
VARIABLES
    pc,           \* position of RadioMonitor.iniciar
    internet,     \* whether _verificar_internet would return True
    supabaseUp,   \* whether the remote service answers requests with success
    SUPABASE_OK,  \* the module-level flag
    radios,       \* self.radios
    idx,          \* 1-based position of the loop over self.radios
    dados,        \* the capture of the station being processed
    envios,       \* the inserts issued by the latest _enviar_para_supabase
    historico,    \* self.historico
    disco,        \* the history file
    seg,          \* the countdown of the cooldown loop
    tentativas,   \* the counter of _aguardar_reconexao
    ciclo,        \* per station handled in the running cycle: what happened
    config,       \* the "radios" list of the local configuration file
    texto,        \* the argument of a call of parse_song_text
    song          \* what the call returned: empty before the call, then the result

vars == <<pc, internet, supabaseUp, SUPABASE_OK, radios, idx, dados, envios,
          historico, disco, seg, tentativas, ciclo, config, texto, song>>

\* what no step of the scheduler writes
fixos == <<config, texto, song>>

\* the locals of _atualizar_todas and of the countdown
locais == <<idx, dados, envios, ciclo>>

\* the most failed checks the counter of _aguardar_reconexao tells apart
MaxTentativas == 2

\* self.intervalo
Intervalo == IntervaloMinutos * SegundosPorMinuto

\* _verificar_internet()
_verificar_internet == internet

\* verificar_conexao_supabase()
verificar_conexao_supabase == supabaseUp

SemLocais ==
    /\ idx' = 0
    /\ dados' = SemDados
    /\ envios' = <<>>
    /\ ciclo' = <<>>

\* the state after the module was loaded and RadioMonitor was constructed,
\* for the history files the start can find
InitCom(arquivos) ==
    /\ pc = "inicio"
    /\ internet \in BOOLEAN
    /\ supabaseUp \in BOOLEAN
    /\ SUPABASE_OK = supabaseUp
    /\ radios = <<>>
    /\ idx = 0
    /\ dados = SemDados
    /\ envios = <<>>
    /\ \E arquivo \in arquivos :
          /\ disco = arquivo
          /\ historico = _carregar_historico(arquivo)
    /\ seg = 0
    /\ tentativas = 0
    /\ ciclo = <<>>
    /\ config \in ConfigsLocais
    /\ texto = NoText
    /\ song = <<>>

Init == InitCom(ArquivosIniciais)

\* the start over every history file, the one without "radios" included
InitArquivo == InitCom(ArquivosIniciais \cup {ArquivoSemRadios})

(***************************************************************************)
(* The environment                                                         *)
(***************************************************************************)
RedeMuda ==
    /\ pc # "parado"
    /\ internet' = ~internet
    /\ UNCHANGED <<fixos, pc, supabaseUp, SUPABASE_OK, radios, historico, disco, seg,
                   tentativas, locais>>

SupabaseMuda ==
    /\ pc # "parado"
    /\ supabaseUp' = ~supabaseUp
    /\ UNCHANGED <<fixos, pc, internet, SUPABASE_OK, radios, historico, disco, seg,
                   tentativas, locais>>

(***************************************************************************)
(* RadioMonitor.iniciar                                                    *)
(***************************************************************************)
\* the load of the stations before the loop
Iniciar ==
    /\ pc = "inicio"
    /\ radios' \in _carregar_radios_supabase(SUPABASE_OK, supabaseUp, config)
    /\ pc' = "probe"
    /\ UNCHANGED <<fixos, internet, supabaseUp, SUPABASE_OK, historico, disco, seg,
                   tentativas, locais>>

\* Probe that starts the cycle whatever the check returned
ProbeSemVerificar ==
    /\ pc = "probe"
    /\ pc' = "ciclo"
    /\ UNCHANGED <<fixos, internet, supabaseUp, SUPABASE_OK, radios, historico, disco,
                   seg, tentativas, locais>>

\* top of the loop: if not self._verificar_internet()
Probe ==
    /\ pc = "probe"
    /\ IF _verificar_internet
       THEN pc' = "ciclo" /\ tentativas' = tentativas
       ELSE pc' = "reconexao" /\ tentativas' = 0
    /\ UNCHANGED <<fixos, internet, supabaseUp, SUPABASE_OK, radios, historico, disco,
                   seg, locais>>

\* the wait that never sees the connection come back
AguardarParaSempre ==
    /\ pc = "reconexao"
    /\ pc' = "reconexao"
    /\ tentativas' = IF tentativas < MaxTentativas THEN tentativas + 1 ELSE tentativas
    /\ UNCHANGED <<fixos, internet, supabaseUp, SUPABASE_OK, radios, historico, disco,
                   seg, locais>>

\* one check of the loop of _aguardar_reconexao
AguardarReconexao ==
    /\ pc = "reconexao"
    /\ IF _verificar_internet
       THEN pc' = "ciclo" /\ tentativas' = tentativas
       ELSE /\ pc' = "reconexao"
            /\ tentativas' = IF tentativas < MaxTentativas THEN tentativas + 1
                             ELSE tentativas
    /\ UNCHANGED <<fixos, internet, supabaseUp, SUPABASE_OK, radios, historico, disco,
                   seg, locais>>

\* _atualizar_todas up to the launch of the browser; the count a cut countdown
\* left in seg is dead once the cycle runs (the next for statement assigns seg)
AtualizarInicio ==
    /\ pc = "ciclo"
    /\ PLAYWRIGHT_OK
    /\ SUPABASE_OK' = IF ~SUPABASE_OK THEN verificar_conexao_supabase ELSE SUPABASE_OK
    /\ radios' \in _carregar_radios_supabase(SUPABASE_OK', supabaseUp, config)
    /\ IF radios' = <<>>
       THEN /\ pc' = "cooldown"
            /\ seg' = Intervalo
            /\ SemLocais
       ELSE \E lancou \in BOOLEAN :
              IF lancou
              THEN /\ pc' = "extrair"
                   /\ idx' = 1
                   /\ seg' = 0
                   /\ UNCHANGED <<dados, envios, ciclo>>
              ELSE /\ pc' = "backoff"
                   /\ seg' = 0
                   /\ SemLocais
    /\ tentativas' = 0
    /\ UNCHANGED <<fixos, internet, supabaseUp, historico, disco>>

\* Extrair that lets the exception of a failed extraction leave the loop
ExtrairPropaga ==
    /\ pc = "extrair"
    /\ IF radios[idx].tipo = None
       THEN /\ pc' = "backoff"
            /\ SemLocais
       ELSE \E d \in IF radios[idx].tipo = "clubefm"
                     THEN _extrair_clubefm(radios[idx])
                     ELSE _extrair_mytuner(radios[idx]) :
              IF d.erro # None
              THEN /\ pc' = "backoff"
                   /\ SemLocais
              ELSE /\ dados' = d
                   /\ pc' = "enviar"
                   /\ UNCHANGED <<idx, envios, ciclo>>
    /\ UNCHANGED <<fixos, internet, supabaseUp, SUPABASE_OK, radios, historico, disco,
                   seg, tentativas>>

\* Extrair that takes the stations from the end of the list
ExtrairForaDeOrdem ==
    /\ pc = "extrair"
    /\ IF radios[Len(radios) + 1 - idx].tipo = None
       THEN /\ pc' = "backoff"
            /\ SemLocais
       ELSE /\ dados' \in IF radios[Len(radios) + 1 - idx].tipo = "clubefm"
                         THEN _extrair_clubefm(radios[Len(radios) + 1 - idx])
                         ELSE _extrair_mytuner(radios[Len(radios) + 1 - idx])
            /\ pc' = "enviar"
            /\ UNCHANGED <<idx, envios, ciclo>>
    /\ UNCHANGED <<fixos, internet, supabaseUp, SUPABASE_OK, radios, historico, disco,
                   seg, tentativas>>

\* the dispatch on radio['tipo'] and the extraction of station idx
Extrair ==
    /\ pc = "extrair"
    /\ IF radios[idx].tipo = None
       THEN /\ pc' = "backoff"
            /\ SemLocais
       ELSE /\ dados' \in IF radios[idx].tipo = "clubefm"
                         THEN _extrair_clubefm(radios[idx])
                         ELSE _extrair_mytuner(radios[idx])
            /\ pc' = "enviar"
            /\ UNCHANGED <<idx, envios, ciclo>>
    /\ UNCHANGED <<fixos, internet, supabaseUp, SUPABASE_OK, radios, historico, disco,
                   seg, tentativas>>

\* Enviar that lets a failed insert raise out of the cycle
EnviarPropaga ==
    /\ pc = "enviar"
    /\ LET env == _enviar_para_supabase(dados, SUPABASE_OK, supabaseUp)
       IN  IF \E i \in 1..Len(env) : ~env[i].ok
           THEN /\ pc' = "backoff"
                /\ SemLocais
           ELSE /\ envios' = env
                /\ pc' = "registrar"
                /\ UNCHANGED <<idx, dados, ciclo>>
    /\ UNCHANGED <<fixos, internet, supabaseUp, SUPABASE_OK, radios, historico, disco,
                   seg, tentativas>>

\* await self._enviar_para_supabase(dados, radio)
Enviar ==
    /\ pc = "enviar"
    /\ envios' = _enviar_para_supabase(dados, SUPABASE_OK, supabaseUp)
    /\ pc' = "registrar"
    /\ UNCHANGED <<fixos, internet, supabaseUp, SUPABASE_OK, radios, idx, dados,
                   historico, disco, seg, tentativas, ciclo>>

\* what the cycle remembers of a handled station
Resumo(d, env, hist) ==
    [nome |-> d.nome, agora |-> d.tocando_agora, erro |-> d.erro # None,
     falhou |-> \E i \in 1..Len(env) : ~env[i].ok,
     enviou |-> \E i \in 1..Len(env) : env[i].ok,
     removeu |-> Len(hist) = HistCap /\ NovoCompleto(hist, d.tocando_agora) # hist]

\* the history update of station idx and the step to the next station
Registrar ==
    /\ pc = "registrar"
    /\ IF TemRadios(historico)
       THEN /\ historico' = RegistrarLocal(historico, radios[idx], dados)
            /\ ciclo' = Append(ciclo,
                  Resumo(dados, envios, Completo(historico, RadioId(radios[idx].nome))))
            /\ idx' = idx + 1
            /\ pc' = IF idx = Len(radios) THEN "fim" ELSE "extrair"
            /\ UNCHANGED <<dados, envios>>
       ELSE /\ pc' = "backoff"
            /\ SemLocais
            /\ UNCHANGED historico
    /\ UNCHANGED <<fixos, internet, supabaseUp, SUPABASE_OK, radios, disco, seg,
                   tentativas>>

\* the end of _atualizar_todas: the time of the update is set, the store is
\* written and the countdown starts
Finalizar ==
    /\ pc = "fim"
    /\ historico' = [historico EXCEPT !.ultima_atualizacao = DataHora]
    /\ disco' = _salvar_historico(historico')
    /\ pc' = "cooldown"
    /\ seg' = Intervalo
    /\ SemLocais
    /\ UNCHANGED <<fixos, internet, supabaseUp, SUPABASE_OK, radios, tentativas>>

\* the countdown that never checks the connectivity
ContagemSemProbe ==
    /\ pc = "cooldown"
    /\ seg' = seg - 1
    /\ pc' = IF seg = 1 THEN "probe" ELSE "cooldown"
    /\ UNCHANGED <<fixos, internet, supabaseUp, SUPABASE_OK, radios, historico, disco,
                   tentativas, locais>>

\* one iteration of the countdown: a tick of one second, then the connectivity
\* check when seg is a multiple of 30, which breaks the loop when it fails and
\* leaves seg at the count of the ticks that did not run
Contagem ==
    /\ pc = "cooldown"
    /\ IF seg % PeriodoProbe = 0 /\ ~_verificar_internet
       THEN /\ pc' = "probe"
            /\ seg' = seg
       ELSE /\ seg' = seg - 1
            /\ pc' = IF seg = 1 THEN "probe" ELSE "cooldown"
    /\ UNCHANGED <<fixos, internet, supabaseUp, SUPABASE_OK, radios, historico, disco,
                   tentativas, locais>>

\* Backoff that ends the process instead of retrying
BackoffMorre ==
    /\ pc = "backoff"
    /\ pc' = "morto"
    /\ UNCHANGED <<fixos, internet, supabaseUp, SUPABASE_OK, radios, historico, disco,
                   seg, tentativas, locais>>

\* except Exception: await asyncio.sleep(30)
Backoff ==
    /\ pc = "backoff"
    /\ pc' = "probe"
    /\ UNCHANGED <<fixos, internet, supabaseUp, SUPABASE_OK, radios, historico, disco,
                   seg, tentativas, locais>>

\* except KeyboardInterrupt: break
Interromper ==
    /\ pc # "parado"
    /\ pc' = "parado"
    /\ seg' = 0
    /\ tentativas' = 0
    /\ SemLocais
    /\ UNCHANGED <<fixos, internet, supabaseUp, SUPABASE_OK, radios, historico, disco>>

Next ==
    \/ RedeMuda
    \/ SupabaseMuda
    \/ Iniciar
    \/ Probe
    \/ AguardarReconexao
    \/ AtualizarInicio
    \/ Extrair
    \/ Enviar
    \/ Registrar
    \/ Finalizar
    \/ Contagem
    \/ Backoff
    \/ Interromper

Spec == Init /\ [][Next]_vars

\* the scheduler started over any history file
SpecArquivo == InitArquivo /\ [][Next]_vars

\* the longest text given to parse_song_text
MaxLen == 3

\* the characters of the texts: blank, line break, letter, dash, digit, colon
Alfabeto == {" ", NL, "a", "-", "1", ":"}

\* every text of at most MaxLen characters
Textos == UNION {[1..n -> Alfabeto] : n \in 0..MaxLen}

\* first lines of a two-line text: with a separator, without one, and with a
\* separator between parts of one character
LinhasZero ==
    { <<"a", "b", " ", "-", " ", "c", "d">>,
      <<"a", "b">>,
      <<"a", " ", "-", " ", "b">> }

\* second lines of a two-line text: one character, a bare HH:MM token, an artist
LinhasUm == { <<"1">>, <<"1", "1", ":", "1", "1">>, <<"a", "a">> }

\* the two-line texts
TextosDeLinhas == {l0 \o <<NL>> \o l1 : l0 \in LinhasZero, l1 \in LinhasUm}

\* the cleaned lines parse_song_text works on
LinhasDe(raw) == StripNonEmpty(SplitNl(CleanTime(Strip(raw))))

\* a call of parse_song_text about to be made on any of the texts
InitParse ==
    /\ pc = "parse"
    /\ internet = TRUE
    /\ supabaseUp = FALSE
    /\ SUPABASE_OK = FALSE
    /\ radios = <<>>
    /\ idx = 0
    /\ dados = SemDados
    /\ envios = <<>>
    /\ historico = HistoricoVazio
    /\ disco = [estado |-> "ausente", conteudo |-> HistoricoVazio]
    /\ seg = 0
    /\ tentativas = 0
    /\ ciclo = <<>>
    /\ config = <<>>
    /\ texto \in Textos \cup TextosDeLinhas
    /\ song = <<>>

\* the call parse_song_text(texto)
Normalizar ==
    /\ pc = "parse"
    /\ song = <<>>
    /\ song' = <<parse_song_text(texto)>>
    /\ UNCHANGED <<pc, internet, supabaseUp, SUPABASE_OK, radios, idx, dados, envios,
                   historico, disco, seg, tentativas, ciclo, config, texto>>

NextParse == Normalizar

\* parse_song_text called once on each text
SpecParse == InitParse /\ [][NextParse]_vars

\* a station name that differs from NomeA only by case and by "_" for " "
NomeC == <<"r", "_", "a">>

\* local configurations of two active stations with distinct names
ConfigsDeNomes ==
    { << [nome |-> NomeA, url |-> UrlClube, ativo |-> TRUE, tipo |-> "clubefm"],
         [nome |-> NomeB, url |-> UrlClube, ativo |-> TRUE, tipo |-> "clubefm"] >>,
      << [nome |-> NomeA, url |-> UrlClube, ativo |-> TRUE, tipo |-> "clubefm"],
         [nome |-> NomeC, url |-> UrlClube, ativo |-> TRUE, tipo |-> "clubefm"] >> }

\* the start of a run on those configurations, the remote service not answering
InitNomes ==
    /\ pc = "inicio"
    /\ internet \in BOOLEAN
    /\ supabaseUp = FALSE
    /\ SUPABASE_OK = supabaseUp
    /\ radios = <<>>
    /\ idx = 0
    /\ dados = SemDados
    /\ envios = <<>>
    /\ disco \in ArquivosIniciais
    /\ historico = _carregar_historico(disco)
    /\ seg = 0
    /\ tentativas = 0
    /\ ciclo = <<>>
    /\ config \in ConfigsDeNomes
    /\ texto = NoText
    /\ song = <<>>

\* a step of the coroutine of iniciar
Passo ==
    \/ Iniciar
    \/ Probe
    \/ AguardarReconexao
    \/ AtualizarInicio
    \/ Extrair
    \/ Enviar
    \/ Registrar
    \/ Finalizar
    \/ Contagem
    \/ Backoff

\* the start of a run during which the remote service never answers
InitSemRemoto == Init /\ ~supabaseUp

\* the steps of a run the user never stops and in which the remote service
\* stays as it was
NextSemParada ==
    \/ RedeMuda
    \/ Iniciar
    \/ Probe
    \/ AguardarReconexao
    \/ AtualizarInicio
    \/ Extrair
    \/ Enviar
    \/ Registrar
    \/ Finalizar
    \/ Contagem
    \/ Backoff

\* the scheduler on the local configurations of two stations
SpecNomes == InitNomes /\ [][NextSemParada]_vars

\* the run the user never stops: every sleep ends and every request returns
\* or times out, so the coroutine always takes its next step
SpecJusta == InitSemRemoto /\ [][NextSemParada]_vars /\ WF_vars(Passo)

(***************************************************************************)
(* Properties                                                              *)
(***************************************************************************)
\* the positions of a cycle in progress
NoCiclo == {"extrair", "enviar", "registrar", "fim"}

\* the last "musica" of a key's history, NoText for an empty history
UltimaMusica(h, radio_id) ==
    IF Completo(h, radio_id) = <<>> THEN NoText
    ELSE Completo(h, radio_id)[Len(Completo(h, radio_id))].musica

\* C1: a cycle starts only from a connectivity check that returned true; while
\* the check returns false the scheduler stays before the cycle (at the top of
\* the loop or waiting for the reconnection) and runs no extraction, no sync and
\* no history update; once the check returns true in the reconnection wait the
\* scheduler goes to the cycle, which is entered once and left only towards the
\* stations, the cooldown or the backoff.
C1_CicloSoAposProbe ==
    /\ [][ /\ (pc # "ciclo" /\ pc' = "ciclo") =>
                (pc \in {"probe", "reconexao"} /\ internet)
           /\ (pc \in {"probe", "reconexao"} /\ ~internet) =>
                pc' \in {pc, "reconexao", "parado"}
           /\ pc \in {"probe", "reconexao"} => UNCHANGED <<historico, disco, locais>>
           /\ (pc = "reconexao" /\ internet) => pc' \in {"reconexao", "ciclo", "parado"}
           /\ (pc' = "extrair" /\ pc \notin {"extrair", "registrar"}) => pc = "ciclo"
           /\ pc = "ciclo" => pc' \in {"ciclo", "extrair", "cooldown", "backoff", "parado"}
         ]_vars
    /\ [](pc \in {"probe", "reconexao"} => idx = 0 /\ dados = SemDados /\ envios = <<>>)

\* C1 witness: after failed checks in the reconnection wait the check returned
\* true and the cycle is about to run
C1_Witness == pc = "ciclo" /\ tentativas = MaxTentativas

\* C2: the scheduler is only ever at a position of the loop or stopped by the
\* user; it stops only by the user's interrupt; and after a caught exception
\* (the backoff) it goes back to the connectivity check at the top of the loop.
C2_ExcecaoNaoTermina ==
    [][ /\ pc' \in {"inicio", "probe", "reconexao", "ciclo", "extrair", "enviar",
                    "registrar", "fim", "cooldown", "backoff", "parado"}
        /\ (pc # "parado" /\ pc' = "parado") => Interromper
        /\ pc = "backoff" => pc' \in {"backoff", "probe", "parado"}
        /\ (pc \in NoCiclo \cup {"ciclo"} /\ pc' \notin NoCiclo \cup {"ciclo", "cooldown", "parado"})
              => pc' = "backoff"
      ]_vars

\* C2 witness: an exception of a cycle was caught and the backoff is running
C2_Witness == pc = "backoff" /\ radios # <<>>

\* C3: the extraction of a station that has a kind never raises: its failure
\* is the capture's erro and the station goes on to the sync; once a station of
\* the cycle has a failed extraction the cycle still does not abort; and a cycle
\* that reaches its end has handled every station of the list, in order.
C3_FalhaDeExtracaoIsolada ==
    /\ [][ /\ (pc = "extrair" /\ radios[idx].tipo # None) =>
                pc' \in {"extrair", "enviar", "parado"}
           /\ (pc = "enviar" /\ dados.erro # None) => pc' \in {"enviar", "registrar", "parado"}
           /\ (/\ pc \in NoCiclo
               /\ \/ dados.erro # None
                  \/ \E i \in 1..Len(ciclo) : ciclo[i].erro) =>
                pc' \in NoCiclo \cup {"cooldown", "parado"}
         ]_vars
    /\ [](pc = "fim" =>
            /\ Len(ciclo) = Len(radios)
            /\ \A i \in 1..Len(radios) : ciclo[i].nome = radios[i].nome)
    /\ [](pc \in {"extrair", "enviar", "registrar"} => Len(ciclo) = idx - 1)

\* C3 witness: the cycle ended, its first station failed to extract and its
\* second station was extracted and recorded with a now-playing text
C3_Witness ==
    /\ pc = "fim"
    /\ Len(ciclo) = 2
    /\ ciclo[1].erro
    /\ ~ciclo[2].erro
    /\ ciclo[2].agora # NoText
    /\ UltimaMusica(historico, RadioId(ciclo[2].nome)) = ciclo[2].agora

\* C4: a failed insert never raises out of the sync or of the history update;
\* at the end of a cycle every station with a now-playing text has that text
\* as the last entry of its history, whether its inserts failed or not; and the
\* end of the cycle writes the store and starts the cooldown.
C4_FalhaDeSyncNaoImpedeHistorico ==
    /\ [][ /\ pc = "enviar" => pc' \in {"enviar", "registrar", "parado"}
           /\ pc = "registrar" => pc' \in {"registrar", "extrair", "fim", "parado"}
           /\ pc = "fim" => pc' \in {"fim", "cooldown", "parado"}
           /\ (pc = "fim" /\ pc' = "cooldown") =>
                (disco' = _salvar_historico(historico') /\ historico'.radios = historico.radios)
         ]_vars
    /\ [](pc = "fim" =>
            \A i \in 1..Len(ciclo) :
                ciclo[i].agora # NoText =>
                    UltimaMusica(historico, RadioId(ciclo[i].nome)) = ciclo[i].agora)

\* C4 witness: at the end of a cycle the inserts of the first station failed,
\* those of the second succeeded, and both histories end with their captures
C4_Witness ==
    /\ pc = "fim"
    /\ Len(ciclo) = 2
    /\ ciclo[1].falhou /\ ~ciclo[1].enviou
    /\ ciclo[2].enviou /\ ~ciclo[2].falhou
    /\ UltimaMusica(historico, RadioId(ciclo[1].nome)) = ciclo[1].agora
    /\ UltimaMusica(historico, RadioId(ciclo[2].nome)) = ciclo[2].agora

\* the keys the store holds
Chaves == IF TemRadios(historico) THEN DOMAIN historico.radios ELSE {}

\* a title that is a bare HH:MM token or shorter than 2 characters
TituloLixo(title) == IsHHMM(title) \/ Len(title) < 2

\* C5 (as claimed): no two consecutive entries of a key's history are the same
\* song, the song of an entry being the normalized title and artist of its text.
C5_SemRepeticaoDeSong ==
    \A k \in Chaves :
        \A i \in 1..(Len(Completo(historico, k)) - 1) :
            SongDe(Completo(historico, k)[i].musica)
                # SongDe(Completo(historico, k)[i + 1].musica)

\* C6: a key's history never holds more than the cap; recording a capture
\* whose text differs from the newest entry appends it, keeping every entry
\* while the history is below the cap and dropping the oldest entry, with the
\* others in order, when the history is full; no other key's history changes.
C6_CapEOrdem ==
    /\ [](\A k \in Chaves : Len(Completo(historico, k)) <= HistCap)
    /\ [][( /\ pc = "registrar"
            /\ pc' \in {"extrair", "fim"}
            /\ dados.erro = None
            /\ dados.tocando_agora # NoText
            /\ UltimaMusica(historico, RadioId(dados.nome)) # dados.tocando_agora )
          => /\ Completo(historico', RadioId(dados.nome)) =
                  IF Len(Completo(historico, RadioId(dados.nome))) < HistCap
                  THEN Append(Completo(historico, RadioId(dados.nome)),
                              [musica |-> dados.tocando_agora])
                  ELSE Append(Tail(Completo(historico, RadioId(dados.nome))),
                              [musica |-> dados.tocando_agora])
             /\ \A k \in Chaves \ {RadioId(dados.nome)} :
                   Completo(historico', k) = Completo(historico, k)
         ]_vars

\* C6 witness: a station was recorded on a full history, whose oldest entry
\* was dropped for the new one
C6_Witness ==
    /\ pc \in {"extrair", "fim"}
    /\ \E i \in 1..Len(ciclo) :
          /\ ciclo[i].removeu
          /\ Len(Completo(historico, RadioId(ciclo[i].nome))) = HistCap
          /\ UltimaMusica(historico, RadioId(ciclo[i].nome)) = ciclo[i].agora

\* C7 (as claimed): no entry of a local history and no insert sent to the
\* remote service has a title that is a bare HH:MM token or shorter than 2
\* characters.
C7_LixoNuncaGuardado ==
    /\ \A k \in Chaves :
          \A i \in 1..Len(Completo(historico, k)) :
              ~TituloLixo(SongDe(Completo(historico, k)[i].musica).title)
    /\ \A i \in 1..Len(envios) : ~TituloLixo(envios[i].data.title)

\* the items of a list that pass the filter on title and artist
ItensAceitos(itens) ==
    LET Aceito(t) == ~AgoraRejeitado(SongDe(t))
    IN  SelectSeq(itens, Aceito)

\* C8 (as claimed): once a MyTuner station with no now-playing text and some
\* recently played items was handled while the remote is connected, the inserts
\* of its sync are one per accepted item, none tagged as now playing, and its
\* history holds the accepted items.
C8_UltimasSemTocandoAgora ==
    ( /\ pc \in {"extrair", "fim"}
      /\ idx > 1
      /\ radios[idx - 1].tipo = "mytuner"
      /\ SUPABASE_OK
      /\ dados.erro = None
      /\ dados.tocando_agora = NoText
      /\ ItensAceitos(dados.ultimas_tocadas) # <<>> )
    => /\ Len(envios) = Len(ItensAceitos(dados.ultimas_tocadas))
       /\ \A i \in 1..Len(envios) : envios[i].tabela # "scraped_songs"
       /\ \A j \in 1..Len(ItensAceitos(dados.ultimas_tocadas)) :
             \E i \in 1..Len(Completo(historico, RadioId(dados.nome))) :
                 Completo(historico, RadioId(dados.nome))[i].musica
                     = ItensAceitos(dados.ultimas_tocadas)[j]

\* C9 (as claimed): the inserts of one sync never put the same station, title
\* and artist twice into the rolling history table.
C9_SemInsertDuplicado ==
    \A i, j \in 1..Len(envios) :
        ( /\ i < j
          /\ envios[i].tabela = "radio_historico"
          /\ envios[j].tabela = "radio_historico" )
        => envios[i].data # envios[j].data

\* C10 (as claimed): the flag a cycle runs with is what the remote service
\* answers when the cycle starts.
C10_FlagRefleteInicioDoCiclo ==
    [][(pc = "ciclo" /\ pc' \in {"extrair", "cooldown", "backoff"})
          => SUPABASE_OK' = supabaseUp]_vars

C12_FallbackLocal ==
    [][( /\ ~supabaseUp
         /\ \/ pc = "inicio" /\ pc' = "probe"
            \/ pc = "ciclo" /\ pc' \in {"extrair", "cooldown", "backoff"} )
       => radios' = RadiosLocais(config)]_vars

\* C13: the countdown starts at the configured interval and goes down by one
\* per tick; at a tick whose count is a multiple of 30 a failed connectivity
\* check ends it at once, towards the check at the top of the loop; it ends
\* otherwise only after its last tick; and it runs no extraction, no sync and no
\* history update.
C13_ContagemRegressiva ==
    /\ [](pc = "cooldown" => seg \in 1..Intervalo)
    /\ [][ /\ (pc # "cooldown" /\ pc' = "cooldown") => seg' = Intervalo
           /\ (pc = "cooldown" /\ pc' = "cooldown" /\ seg' # seg) =>
                (seg' = seg - 1 /\ (seg % PeriodoProbe = 0 => internet))
           /\ (pc = "cooldown" /\ seg % PeriodoProbe = 0 /\ ~internet) =>
                (pc' \in {"probe", "parado"} \/ UNCHANGED <<pc, seg>>)
           /\ (pc = "cooldown" /\ pc' = "probe") =>
                (seg = 1 \/ (seg % PeriodoProbe = 0 /\ ~internet))
           /\ pc = "cooldown" =>
                (pc' \in {"cooldown", "probe", "parado"} /\ UNCHANGED <<historico, disco, radios>>)
           /\ (pc = "cooldown" /\ pc' # "parado") => UNCHANGED locais
         ]_vars

\* C13 witness: every check of the countdown succeeded and its last tick is
\* about to elapse
C13_Witness == pc = "cooldown" /\ seg = 1 /\ radios # <<>>

\* C14 (as claimed): once the user has stopped the scheduler, the history file
\* holds every entry of the store of the memory: for every key the history a
\* restart would load is the history of the memory.
C14_ParadaSalvaHistorico ==
    pc = "parado" =>
        \A k \in Chaves :
            Completo(_carregar_historico(disco), k) = Completo(historico, k)

\* C15: in a run the user never stops, if the connectivity check comes to
\* return true for ever, then the scheduler leaves the reconnection wait for
\* good and starts cycles again and again.
C15_VoltaAposQueda ==
    (<>[]internet) => ([]<>(pc = "ciclo") /\ <>[](pc # "reconexao"))

\* C15 witness: a cycle is about to run after one failed check of the
\* reconnection wait
C15_Witness ==
    /\ pc = "ciclo"
    /\ tentativas = 1
    /\ internet
    /\ disco.estado = "json"
    /\ Chaves # {}

\* C16 (as claimed): a cycle that ends without an exception, with stations or
\* without, has set the time of the update and written the store, so the file
\* holds the store of the memory when the cooldown starts.
C16_CicloCompletoSalva ==
    [][(pc \in {"ciclo", "fim"} /\ pc' = "cooldown")
          => /\ historico'.ultima_atualizacao = DataHora
             /\ disco' = _salvar_historico(historico')]_vars

\* C17 (as claimed): whatever the history file held at the start, the history
\* update of a station finds the per-station map in the store and does not
\* raise, so cycles with stations complete.
C17_ArquivoRuimNaoImpede ==
    [][pc = "registrar" => (TemRadios(historico) /\ pc' # "backoff")]_vars

\* the items among the first five of a list that the loop of the sync sends
NumAceitas(ult) ==
    Cardinality({i \in 1..Len(ult) :
                    i <= MaxUltimas /\ UltimaAceita(parse_song_text(ult[i]))})

\* the inserts env are those of a sync of the song sg and the list, all attempted
EnviosCompletos(env, sg, ult) ==
    ~AgoraRejeitado(sg) =>
        /\ Len(env) = 2 + NumAceitas(ult)
        /\ env[1].tabela = "scraped_songs"
        /\ env[1].data.title = sg.title /\ env[1].data.artist = sg.artist
        /\ env[2].tabela = "radio_historico"
        /\ env[2].data.title = sg.title /\ env[2].data.artist = sg.artist
        /\ \A i \in 3..Len(env) : env[i].tabela = "radio_historico"

\* C18: the sync of a station with a now-playing text that passes the filters,
\* run with the flag of the remote service true, has attempted the insert of
\* the observation, the insert into the history table and one insert per
\* accepted item among the first five recently played, whether the inserts
\* failed or not and whatever happened to the stations before it.
C18_FalhaDeInsertNaoAborta ==
    (pc = "registrar" /\ SUPABASE_OK /\ dados.tocando_agora # NoText)
        => EnviosCompletos(envios, SongDe(dados.tocando_agora), dados.ultimas_tocadas)

\* C18 witness: the first insert of a station failed and the other inserts of
\* its sync, cut at five recently played items, were attempted all the same
C18_Witness ==
    /\ pc = "registrar"
    /\ Len(dados.ultimas_tocadas) > MaxUltimas
    /\ Len(envios) = 5
    /\ ~envios[1].ok
    /\ ~envios[5].ok

\* C19 (as claimed): whatever the text, the call of parse_song_text returns a
\* song whose title is not empty.
C19_TituloNaoVazio ==
    song # <<>> => song[1].title # <<>>

\* C20 (as claimed): when the sync of a station issues its inserts, the
\* station's capture is already the last entry of its local history.
C20_HistoricoAntesDoEnvio ==
    [][(pc = "enviar" /\ pc' = "registrar" /\ envios' # <<>>)
          => UltimaMusica(historico, RadioId(dados.nome)) = dados.tocando_agora]_vars

\* C21: within a cycle the stations are handled one at a time in the order
\* of the list: the page is opened once, when the cycle enters its first
\* extraction, and the next extraction starts only from the history update of
\* the station before; the capture being sent or recorded is that of station
\* idx; inserts are issued only by the sync of station idx and name that
\* station; the history changes only in the update of station idx and only
\* under that station's key; and the list does not change during the cycle.
C21_SemIntercalacao ==
    /\ [](pc \in {"enviar", "registrar"} => dados.nome = radios[idx].nome)
    /\ [](pc \in NoCiclo =>
            /\ Len(ciclo) = idx - 1
            /\ \A i \in 1..Len(ciclo) : ciclo[i].nome = radios[i].nome)
    /\ [][ /\ (pc \in NoCiclo /\ pc' \in NoCiclo) => radios' = radios
           /\ (pc' = "extrair" /\ pc # "extrair") =>
                \/ pc = "ciclo" /\ idx' = 1
                \/ pc = "registrar" /\ idx' = idx + 1 /\ idx' <= Len(radios)
           /\ (pc = "extrair" /\ pc' = "enviar") =>
                (idx' = idx /\ dados'.nome = radios[idx].nome)
           /\ (envios' # envios /\ envios' # <<>>) =>
                /\ pc = "enviar"
                /\ idx' = idx
                /\ \A i \in 1..Len(envios') :
                      envios'[i].data.station_name = radios[idx].nome
           /\ historico'.radios # historico.radios =>
                /\ pc = "registrar"
                /\ \A k \in Chaves \ {RadioId(radios[idx].nome)} :
                      Completo(historico', k) = Completo(historico, k)
         ]_vars

\* C21 witness: a cycle of two stations ended, each station's inserts were
\* issued and each history ends with the station's own capture
C21_Witness ==
    /\ pc = "fim"
    /\ Len(ciclo) = 2
    /\ ciclo[1].enviou /\ ciclo[2].enviou
    /\ ciclo[1].agora # ciclo[2].agora
    /\ UltimaMusica(historico, RadioId(radios[1].nome)) = ciclo[1].agora
    /\ UltimaMusica(historico, RadioId(radios[2].nome)) = ciclo[2].agora

\* depois is antes without some of its oldest entries, dropped only to keep
\* the cap, and with at most one entry added at its end
SoAcrescenta(antes, depois) ==
    \E d \in 0..Len(antes), a \in 0..1 :
        /\ Len(depois) = Len(antes) - d + a
        /\ \A i \in 1..(Len(antes) - d) : depois[i] = antes[d + i]
        /\ d > 0 => (Len(antes) + a > HistCap /\ Len(depois) = HistCap)

\* C22: every step of the scheduler, whether the cycle completes, raises or
\* runs with a station list that lost a station, keeps every key of the store,
\* and leaves each key's history as it was but for oldest entries dropped by the
\* cap and at most one entry appended at the end.
C22_HistoricoSoAcrescenta ==
    [][\/ historico'.radios = historico.radios
       \/ \A k \in Chaves :
             /\ k \in DOMAIN historico'.radios
             /\ \/ Completo(historico', k) = Completo(historico, k)
                \/ SoAcrescenta(Completo(historico, k), Completo(historico', k))]_vars

\* C22 witness: a cycle ended whose list no longer has the first station; the
\* history of that station is still in the store and the station that remains
\* had its capture appended
C22_Witness ==
    /\ pc = "fim"
    /\ Len(radios) = 1
    /\ radios[1].nome = NomeB
    /\ Completo(historico, RadioId(NomeA)) # <<>>
    /\ ciclo[1].agora # NoText
    /\ Len(Completo(historico, RadioId(NomeB))) = HistCap
    /\ UltimaMusica(historico, RadioId(NomeB)) = ciclo[1].agora

\* C23 (as claimed): when the text has two cleaned lines or more and the second
\* is a bare HH:MM token or has at most one character, the song returned is
\* what the separator rule, then the fallback, give on the first line alone.
C23_SeparadorSoNaLinhaZero ==
    ( /\ song # <<>>
      /\ Len(LinhasDe(texto)) >= 2
      /\ IsHHMM(LinhasDe(texto)[2]) \/ Len(LinhasDe(texto)[2]) <= 1 )
    => song[1] = SplitBySeparator(LinhasDe(texto)[1], 1,
                    [title |-> LinhasDe(texto)[1], artist |-> Desconhecido])

\* C24 (as claimed): the extraction of a station of the list, whether it came
\* from the remote table or from the local configuration, is dispatched on the
\* station's url alone and always runs: its capture is one the strategy of the
\* url yields.
C24_EstrategiaSoDaUrl ==
    [][(pc = "extrair" /\ pc' \notin {"extrair", "parado"})
          => /\ pc' = "enviar"
             /\ dados' \in IF TipoDeUrl(radios[idx].url) = "clubefm"
                          THEN _extrair_clubefm(radios[idx])
                          ELSE _extrair_mytuner(radios[idx])]_vars

\* C25 (as claimed): for a capture whose erro is set, the sync issues no
\* insert and the history update leaves the station's history as it was.
C25_ErroNaoContribui ==
    [][dados.erro # None =>
          /\ (pc = "enviar" /\ pc' = "registrar") => envios' = <<>>
          /\ (pc = "registrar" /\ pc' \in {"extrair", "fim"}) =>
                Completo(historico', RadioId(dados.nome))
                    = Completo(historico, RadioId(dados.nome))]_vars

\* C26 (as claimed): the history update of a station leaves the history of
\* every other station of the list, whose name is a different one, as it was.
C26_HistoricoProprio ==
    [][(pc = "registrar" /\ pc' \in {"extrair", "fim"})
          => \A j \in 1..Len(radios) :
                radios[j].nome # radios[idx].nome =>
                    Completo(historico', RadioId(radios[j].nome))
                        = Completo(historico, RadioId(radios[j].nome))]_vars

\* C27 (as claimed): a cycle that starts from the check at the top of the loop
\* starts with no tick of the cooldown left to run; a countdown that was cut
\* leads to a cycle only through the reconnection wait.
C27_SemCicloAntecipado ==
    [][(pc = "probe" /\ pc' = "ciclo") => seg = 0]_vars

=============================================================================
